---- MODULE Spec2Model ----
(***************************************************************************)
(* Model of the grid generator view (src/src/App.tsx): the component's     *)
(* state, its event handlers and its two code generators.                  *)
(*                                                                         *)
(* The view layer is taken as given: every handler runs to completion on   *)
(* the state of the latest render, and what the view shows (renderGrid,    *)
(* renderCode) is a function of the state.                                 *)
(***************************************************************************)
EXTENDS Integers, Sequences, FiniteSets, TLC

VARIABLES
  gridConfig,    \* [columns, rows, columnGap, rowGap]
  gridAreas,     \* sequence of areas, in insertion order
  isDragging,    \* BOOLEAN
  startCell,     \* <<>> (null) or <<[row, col]>>
  currentCell,   \* <<>> (null) or <<[row, col]>>
  showTailwind,  \* BOOLEAN
  now,           \* the value Date.now() returns
  lastEvent      \* history: the event handled last, and whether it appended an area

vars == <<gridConfig, gridAreas, isDragging, startCell, currentCell,
          showTailwind, now, lastEvent>>

----------------------------------------------------------------------------
(* Bounds of the model.                                                    *)

\* Under Spec the pointer stays on the rendered cells of the first column, in
\* the first MaxRow rows, and a gesture starts only while the registry holds
\* fewer than MaxAreas areas.
MaxRow == 3
MaxAreas == 2
\* Under SpecGrid the pointer moves over the first MaxGridRow rows and the
\* first MaxGridCol columns.
MaxGridRow == 3
MaxGridCol == 2
MaxGridAreas == 1
\* Under SpecClock the pointer stays on the first cell and the clock stops
\* advancing at MaxClock.
MaxClockAreas == 9
MaxClock == 1

----------------------------------------------------------------------------
(* Values.                                                                 *)

Null == <<>>

Cell(row, col) == <<[row |-> row, col |-> col]>>

Min(a, b) == IF a <= b THEN a ELSE b

Max(a, b) == IF a >= b THEN a ELSE b

AREA_COLORS ==
  << "bg-gradient-to-br from-blue-500 to-blue-600",
     "bg-gradient-to-br from-emerald-500 to-emerald-600",
     "bg-gradient-to-br from-amber-500 to-amber-600",
     "bg-gradient-to-br from-rose-500 to-rose-600",
     "bg-gradient-to-br from-violet-500 to-violet-600",
     "bg-gradient-to-br from-pink-500 to-pink-600",
     "bg-gradient-to-br from-teal-500 to-teal-600",
     "bg-gradient-to-br from-orange-500 to-orange-600" >>

CSS_COLORS ==
  << "linear-gradient(135deg, #3B82F6, #2563EB)",
     "linear-gradient(135deg, #10B981, #059669)",
     "linear-gradient(135deg, #F59E0B, #D97706)",
     "linear-gradient(135deg, #F43F5E, #E11D48)",
     "linear-gradient(135deg, #8B5CF6, #7C3AED)",
     "linear-gradient(135deg, #EC4899, #DB2777)",
     "linear-gradient(135deg, #14B8A6, #0D9488)",
     "linear-gradient(135deg, #F97316, #EA580C)" >>

\* arr[index % arr.length], for a 0-based index into a 1-based sequence.
At(arr, index) == arr[(index % Len(arr)) + 1]

----------------------------------------------------------------------------
(* parseInt(e.target.value) || fallback.  A field's text is a sequence of  *)
(* characters; the result of parseInt is NaN or an integer.                *)

Digits == {"0", "1", "2", "3", "4", "5", "6", "7", "8", "9"}

DigitValue(ch) ==
  CASE ch = "0" -> 0 [] ch = "1" -> 1 [] ch = "2" -> 2 [] ch = "3" -> 3
    [] ch = "4" -> 4 [] ch = "5" -> 5 [] ch = "6" -> 6 [] ch = "7" -> 7
    [] ch = "8" -> 8 [] ch = "9" -> 9

RECURSIVE SkipWhite(_)
SkipWhite(s) ==
  IF s # <<>> /\ Head(s) = " " THEN SkipWhite(Tail(s)) ELSE s

\* The longest prefix of s made of digits.
RECURSIVE DigitPrefix(_)
DigitPrefix(s) ==
  IF s # <<>> /\ Head(s) \in Digits THEN <<Head(s)>> \o DigitPrefix(Tail(s)) ELSE <<>>

RECURSIVE DigitsValue(_, _)
DigitsValue(ds, acc) ==
  IF ds = <<>> THEN acc ELSE DigitsValue(Tail(ds), 10 * acc + DigitValue(Head(ds)))

NaN == [nan |-> TRUE, value |-> 0]

Number(n) == [nan |-> FALSE, value |-> n]

\* parseInt, radix 10: leading white space, an optional sign, then digits up
\* to the first character that is no digit; NaN when there is no digit.
parseInt(text) ==
  LET s    == SkipWhite(text)
      neg  == s # <<>> /\ Head(s) = "-"
      body == IF s # <<>> /\ Head(s) \in {"-", "+"} THEN Tail(s) ELSE s
      ds   == DigitPrefix(body)
  IN  IF ds = <<>> THEN NaN
      ELSE Number(IF neg THEN 0 - DigitsValue(ds, 0) ELSE DigitsValue(ds, 0))

\* x || fallback on a number: NaN and 0 (and -0) are falsy.
OrElse(x, fallback) == IF x.nan \/ x.value = 0 THEN fallback ELSE x.value

----------------------------------------------------------------------------
(* Array.prototype.join and the number formatting of template strings.     *)

RECURSIVE join(_, _)
join(items, sep) ==
  IF items = <<>> THEN ""
  ELSE IF Len(items) = 1 THEN items[1]
  ELSE items[1] \o sep \o join(Tail(items), sep)

\* `${n * 0.25}` for an integer n.
QuarterString(n) ==
  LET m    == IF n < 0 THEN 0 - n ELSE n
      frac == CASE m % 4 = 0 -> "" [] m % 4 = 1 -> ".25"
                [] m % 4 = 2 -> ".5" [] m % 4 = 3 -> ".75"
  IN  (IF n < 0 THEN "-" ELSE "") \o ToString(m \div 4) \o frac

----------------------------------------------------------------------------
(* The code generators.                                                    *)

\* As TailwindParentClasses, with the gap read from rowGap.
TailwindParentClassesRowGap ==
  join(<< "grid",
          "grid-cols-" \o ToString(gridConfig.columns),
          "grid-rows-" \o ToString(gridConfig.rows),
          "gap-" \o ToString(gridConfig.rowGap) >>, " ")

TailwindParentClasses ==
  join(<< "grid",
          "grid-cols-" \o ToString(gridConfig.columns),
          "grid-rows-" \o ToString(gridConfig.rows),
          "gap-" \o ToString(gridConfig.columnGap) >>, " ")

TailwindItemClasses(area) ==
  join(<< "row-start-" \o ToString(area.rowStart),
          "row-span-" \o ToString(area.rowEnd - area.rowStart),
          "col-start-" \o ToString(area.colStart),
          "col-span-" \o ToString(area.colEnd - area.colStart),
          area.color,
          "rounded-xl shadow-lg" >>, " ")

TailwindGridItems ==
  [i \in 1..Len(gridAreas) |->
     "  <div class=\"" \o TailwindItemClasses(gridAreas[i]) \o "\"></div>"]

generateTailwindCode ==
  "<div class=\"" \o TailwindParentClasses \o "\">\n"
    \o join(TailwindGridItems, "\n") \o "\n</div>"

CssParentStyles ==
  << "display: grid;",
     "grid-template-columns: repeat(" \o ToString(gridConfig.columns) \o ", 1fr);",
     "grid-template-rows: repeat(" \o ToString(gridConfig.rows) \o ", 1fr);",
     "gap: " \o QuarterString(gridConfig.rowGap) \o "rem;" >>

\* One rule per area; index is the 0-based position of the area.
CssRule(area, index) ==
  "\n.grid-area-" \o ToString(index + 1) \o " {\n"
    \o "  grid-row: " \o ToString(area.rowStart) \o " / " \o ToString(area.rowEnd) \o ";\n"
    \o "  grid-column: " \o ToString(area.colStart) \o " / " \o ToString(area.colEnd) \o ";\n"
    \o "  background: " \o At(CSS_COLORS, index) \o ";\n"
    \o "  border-radius: 0.75rem;\n"
    \o "  box-shadow: 0 10px 15px -3px rgb(0 0 0 / 0.1);\n"
    \o "}"

CssRules == [i \in 1..Len(gridAreas) |-> CssRule(gridAreas[i], i - 1)]

CssHtmlItems ==
  [i \in 1..Len(gridAreas) |-> "  <div class=\"grid-area-" \o ToString(i) \o "\"></div>"]

generateCSSCode ==
  [ css  |-> ".grid-container {\n  " \o join(CssParentStyles, "\n  ") \o "\n}\n"
               \o join(CssRules, "\n"),
    html |-> "<div class=\"grid-container\">\n" \o join(CssHtmlItems, "\n") \o "\n</div>" ]

\* The texts shown: the one block of the primary syntax, or the stylesheet
\* and the markup of the secondary syntax.
renderCode ==
  IF showTailwind THEN <<generateTailwindCode>>
  ELSE <<generateCSSCode.css, generateCSSCode.html>>

\* The cells renderGrid creates, each with its pointer handlers.
renderGrid ==
  { [row |-> r, col |-> c] : r \in 1..gridConfig.rows, c \in 1..gridConfig.columns }

----------------------------------------------------------------------------
(* The state after construction.                                           *)

Init ==
  /\ gridConfig = [columns |-> 4, rows |-> 3, columnGap |-> 4, rowGap |-> 4]
  /\ gridAreas = <<>>
  /\ isDragging = FALSE
  /\ startCell = Null
  /\ currentCell = Null
  /\ showTailwind = TRUE
  /\ now = 0
  /\ lastEvent = [name |-> "init", appended |-> FALSE]

----------------------------------------------------------------------------
(* The pointer handlers.                                                   *)

handleMouseDown(row, col) ==
  /\ isDragging' = TRUE
  /\ startCell' = Cell(row, col)
  /\ currentCell' = Cell(row, col)
  /\ UNCHANGED <<gridConfig, gridAreas, showTailwind, now>>
  /\ lastEvent' = [name |-> "onMouseDown", appended |-> FALSE]

\* As handleMouseEnter, without the test of isDragging.
handleMouseEnterUnguarded(row, col) ==
  /\ currentCell' = Cell(row, col)
  /\ UNCHANGED <<gridConfig, gridAreas, isDragging, startCell, showTailwind, now>>
  /\ lastEvent' = [name |-> "onMouseEnter", appended |-> FALSE]

handleMouseEnter(row, col) ==
  /\ IF isDragging THEN currentCell' = Cell(row, col) ELSE UNCHANGED currentCell
  /\ UNCHANGED <<gridConfig, gridAreas, isDragging, startCell, showTailwind, now>>
  /\ lastEvent' = [name |-> "onMouseEnter", appended |-> FALSE]

\* As Rectangle, taking the start cell first and the current cell last.
RectangleUnordered(start, current) ==
  [ rowStart |-> start.row,
    rowEnd   |-> current.row + 1,
    colStart |-> start.col,
    colEnd   |-> current.col + 1 ]

\* The rectangle between two cells: start lines inclusive, end lines exclusive.
Rectangle(start, current) ==
  [ rowStart |-> Min(start.row, current.row),
    rowEnd   |-> Max(start.row, current.row) + 1,
    colStart |-> Min(start.col, current.col),
    colEnd   |-> Max(start.col, current.col) + 1 ]

AreaId == "area-" \o ToString(now)

\* As NextColor, counting the new area in.
NextColorOffByOne == At(AREA_COLORS, Len(gridAreas) + 1)

NextColor == At(AREA_COLORS, Len(gridAreas))

\* The area a release appends.
NewArea ==
  LET r == Rectangle(startCell[1], currentCell[1])
  IN  [ id |-> AreaId,
        rowStart |-> r.rowStart, rowEnd |-> r.rowEnd,
        colStart |-> r.colStart, colEnd |-> r.colEnd,
        color |-> NextColor ]

Commits == isDragging /\ startCell # Null /\ currentCell # Null

\* As handleMouseUp, appending on onMouseUp only: a leave cancels the gesture.
handleMouseUpCancelOnLeave(event) ==
  /\ IF Commits /\ event = "onMouseUp"
       THEN gridAreas' = Append(gridAreas, NewArea)
       ELSE UNCHANGED gridAreas
  /\ isDragging' = FALSE
  /\ startCell' = Null
  /\ currentCell' = Null
  /\ UNCHANGED <<gridConfig, showTailwind, now>>
  /\ lastEvent' = [name |-> event, appended |-> Commits /\ event = "onMouseUp"]

\* handleMouseUp is bound to the root element's onMouseUp and onMouseLeave;
\* event names which of the two fired.
handleMouseUp(event) ==
  /\ IF Commits
       THEN gridAreas' = Append(gridAreas, NewArea)
       ELSE UNCHANGED gridAreas
  /\ isDragging' = FALSE
  /\ startCell' = Null
  /\ currentCell' = Null
  /\ UNCHANGED <<gridConfig, showTailwind, now>>
  /\ lastEvent' = [name |-> event, appended |-> Commits]

----------------------------------------------------------------------------
(* The form handlers.                                                      *)

\* As SetField, dropping the areas that reach beyond the new grid.
SetFieldClamping(field, value) ==
  /\ gridConfig' = [gridConfig EXCEPT ![field] = value]
  /\ gridAreas' = SelectSeq(gridAreas,
                     LAMBDA a : /\ a.rowEnd <= gridConfig'.rows + 1
                                /\ a.colEnd <= gridConfig'.columns + 1)
  /\ UNCHANGED <<isDragging, startCell, currentCell, showTailwind, now>>
  /\ lastEvent' = [name |-> field, appended |-> FALSE]

SetField(field, value) ==
  /\ gridConfig' = [gridConfig EXCEPT ![field] = value]
  /\ UNCHANGED <<gridAreas, isDragging, startCell, currentCell, showTailwind, now>>
  /\ lastEvent' = [name |-> field, appended |-> FALSE]

onChangeColumns(text) == SetField("columns", OrElse(parseInt(text), 1))

onChangeRows(text) == SetField("rows", OrElse(parseInt(text), 1))

onChangeColumnGap(text) == SetField("columnGap", OrElse(parseInt(text), 0))

onChangeRowGap(text) == SetField("rowGap", OrElse(parseInt(text), 0))

\* As onClickReset, removing the last area only.
onClickResetDropsLast ==
  /\ gridAreas' = IF gridAreas = <<>> THEN <<>> ELSE SubSeq(gridAreas, 1, Len(gridAreas) - 1)
  /\ UNCHANGED <<gridConfig, isDragging, startCell, currentCell, showTailwind, now>>
  /\ lastEvent' = [name |-> "reset", appended |-> FALSE]

onClickReset ==
  /\ gridAreas' = <<>>
  /\ UNCHANGED <<gridConfig, isDragging, startCell, currentCell, showTailwind, now>>
  /\ lastEvent' = [name |-> "reset", appended |-> FALSE]

onChangeSyntax(value) ==
  /\ showTailwind' = (value = "tailwind")
  /\ UNCHANGED <<gridConfig, gridAreas, isDragging, startCell, currentCell, now>>
  /\ lastEvent' = [name |-> "syntax", appended |-> FALSE]

\* The wall clock advances between events.
Tick ==
  /\ now < MaxClock
  /\ now' = now + 1
  /\ UNCHANGED <<gridConfig, gridAreas, isDragging, startCell, currentCell,
                 showTailwind, lastEvent>>

----------------------------------------------------------------------------
(* The events of the environment.                                          *)

\* The rendered cells among the first maxRow rows and maxCol columns.
Cells(maxRow, maxCol) == { c \in renderGrid : c.row <= maxRow /\ c.col <= maxCol }

MouseDownIn(maxRow, maxCol, maxAreas) ==
  \E c \in Cells(maxRow, maxCol) :
    Len(gridAreas) < maxAreas /\ handleMouseDown(c.row, c.col)

MouseEnterIn(maxRow, maxCol) ==
  \E c \in Cells(maxRow, maxCol) : handleMouseEnter(c.row, c.col)

\* The texts a field receives under Spec.
Texts == { <<>>, <<"2">> }

GapTexts == { <<>> }

\* The texts a field receives under SpecConfig: empty, not a number, zero,
\* minus zero, in range, the maxima, above them, negative, a fraction, an
\* exponent.
ConfigTexts ==
  { <<>>, <<"a", "b", "c">>, <<"0">>, <<"-", "0">>, <<"7">>, <<"1", "2">>, <<"1", "3">>,
    <<"1", "6">>, <<"1", "7">>, <<"-", "1">>, <<"1", ".", "5">>, <<"2", "e", "1">> }

MouseDown == MouseDownIn(MaxRow, 1, MaxAreas)

MouseEnter == MouseEnterIn(MaxRow, 1)

MouseUp == handleMouseUp("onMouseUp")

MouseLeave == handleMouseUp("onMouseLeave")

ChangeColumns == \E t \in Texts : onChangeColumns(t)

ChangeRows == \E t \in Texts : onChangeRows(t)

ChangeColumnGap == \E t \in GapTexts : onChangeColumnGap(t)

ChangeRowGap == \E t \in GapTexts : onChangeRowGap(t)

Reset == onClickReset

SelectSyntax == \E v \in {"tailwind", "css"} : onChangeSyntax(v)

Next ==
  \/ MouseDown
  \/ MouseEnter
  \/ MouseUp
  \/ MouseLeave
  \/ ChangeColumns
  \/ ChangeRows
  \/ ChangeColumnGap
  \/ ChangeRowGap
  \/ Reset
  \/ SelectSyntax

\* Every handler, the pointer in the first column, the clock standing still.
Spec == Init /\ [][Next]_vars

GridMouseDown == MouseDownIn(MaxGridRow, MaxGridCol, MaxGridAreas)

GridMouseEnter == MouseEnterIn(MaxGridRow, MaxGridCol)

NextGrid ==
  \/ GridMouseDown
  \/ GridMouseEnter
  \/ MouseUp
  \/ MouseLeave
  \/ Reset

\* The gestures over a grid of several rows and columns.
SpecGrid == Init /\ [][NextGrid]_vars

ClockMouseDown == MouseDownIn(1, 1, MaxClockAreas)

ClockMouseEnter == MouseEnterIn(1, 1)

NextClock ==
  \/ ClockMouseDown
  \/ ClockMouseEnter
  \/ MouseUp
  \/ MouseLeave
  \/ Reset
  \/ Tick

\* Many gestures on the first cell while the clock advances.
SpecClock == Init /\ [][NextClock]_vars

ConfigColumns == \E t \in ConfigTexts : onChangeColumns(t)

ConfigRows == \E t \in ConfigTexts : onChangeRows(t)

ConfigColumnGap == \E t \in ConfigTexts : onChangeColumnGap(t)

ConfigRowGap == \E t \in ConfigTexts : onChangeRowGap(t)

NextConfig ==
  \/ ConfigColumns
  \/ ConfigRows
  \/ ConfigColumnGap
  \/ ConfigRowGap

\* The four numeric fields, with every kind of text.
SpecConfig == Init /\ [][NextConfig]_vars

----------------------------------------------------------------------------
(* Properties.                                                             *)

Cleared == ~isDragging /\ startCell = Null /\ currentCell = Null

Last(areas) == areas[Len(areas)]

\* areas is before with exactly one area appended at the end.
AppendsOne(before, areas) ==
  /\ Len(areas) = Len(before) + 1
  /\ SubSeq(areas, 1, Len(before)) = before

FieldNames == {"columns", "rows", "columnGap", "rowGap"}

Lesser(a, b) == CHOOSE m \in {a, b} : m <= a /\ m <= b

Greater(a, b) == CHOOSE m \in {a, b} : m >= a /\ m >= b

C2_ConfigInRange ==
  lastEvent.name \in FieldNames
    => /\ gridConfig.columns \in 1..12
       /\ gridConfig.rows \in 1..12
       /\ gridConfig.columnGap \in 0..16
       /\ gridConfig.rowGap \in 0..16

\* C3: a pointer-up during a gesture from start cell s to current cell c
\* appends exactly one area, with rowStart = min(s.row, c.row), rowEnd =
\* max(s.row, c.row) + 1, colStart = min(s.col, c.col), colEnd = max(s.col,
\* c.col) + 1; the gesture from c to s gives the same rectangle, and s = c
\* gives an area of one cell.
C3_Normalized ==
  [][(isDragging /\ lastEvent'.name = "onMouseUp")
       => LET s == startCell[1]
              c == currentCell[1]
              a == Last(gridAreas')
          IN  /\ AppendsOne(gridAreas, gridAreas')
              /\ a.rowStart = Lesser(s.row, c.row)
              /\ a.rowEnd = Greater(s.row, c.row) + 1
              /\ a.colStart = Lesser(s.col, c.col)
              /\ a.colEnd = Greater(s.col, c.col) + 1
              /\ Rectangle(c, s) = Rectangle(s, c)
              /\ Rectangle(s, c) = [ rowStart |-> a.rowStart, rowEnd |-> a.rowEnd,
                                     colStart |-> a.colStart, colEnd |-> a.colEnd ]
              /\ (s = c => a.rowEnd = a.rowStart + 1 /\ a.colEnd = a.colStart + 1)]_vars

\* A pointer-up has just appended the area of rows 1 to 3 and columns 1 to 2.
C3_Witness ==
  /\ lastEvent = [name |-> "onMouseUp", appended |-> TRUE]
  /\ gridAreas # <<>>
  /\ Last(gridAreas).rowStart = 1 /\ Last(gridAreas).rowEnd = 4
  /\ Last(gridAreas).colStart = 1 /\ Last(gridAreas).colEnd = 3

PositiveSize(a) ==
  /\ 1 <= a.rowStart /\ a.rowStart < a.rowEnd
  /\ 1 <= a.colStart /\ a.colStart < a.colEnd

InGrid(a, config) == a.rowEnd <= config.rows + 1 /\ a.colEnd <= config.columns + 1

\* C4 as stated: an area just appended has 1 <= rowStart < rowEnd <= rows + 1
\* and 1 <= colStart < colEnd <= columns + 1 for the configuration of that
\* moment.
C4_InGridWhenAppended ==
  lastEvent.appended
    => PositiveSize(Last(gridAreas)) /\ InGrid(Last(gridAreas), gridConfig)

C6_UniqueIds ==
  \A i, j \in 1..Len(gridAreas) : i # j => gridAreas[i].id # gridAreas[j].id

\* C7: a release leaves the gesture cleared; without an active gesture a
\* release appends nothing, and a cell-enter changes neither the gesture nor
\* the registry nor the configuration.
C7_StrayEvents ==
  [][/\ lastEvent'.name = "onMouseUp" => Cleared'
     /\ (~isDragging /\ lastEvent'.name = "onMouseUp") => gridAreas' = gridAreas
     /\ (~isDragging /\ lastEvent'.name = "onMouseEnter")
          => UNCHANGED <<isDragging, startCell, currentCell, gridAreas, gridConfig>>]_vars

\* A release without an active gesture has just been handled, the registry
\* holding one area.
C7_Witness ==
  /\ lastEvent = [name |-> "onMouseUp", appended |-> FALSE]
  /\ Cleared
  /\ Len(gridAreas) = 1

ExpectedTailwindParent ==
  "<div class=\"grid grid-cols-" \o ToString(gridConfig.columns)
    \o " grid-rows-" \o ToString(gridConfig.rows)
    \o " gap-" \o ToString(gridConfig.columnGap) \o "\">"

ExpectedCssContainer ==
  ".grid-container {\n  display: grid;\n  grid-template-columns: repeat("
    \o ToString(gridConfig.columns) \o ", 1fr);\n  grid-template-rows: repeat("
    \o ToString(gridConfig.rows) \o ", 1fr);\n  gap: "
    \o QuarterString(gridConfig.rowGap) \o "rem;\n}\n"

\* C8: the reset leaves the registry empty, and with an empty registry the
\* generators emit the parent or container alone: no child line, no rule of
\* an area and no child element.
C8_ResetEmpties ==
  /\ lastEvent.name = "reset" => gridAreas = <<>>
  /\ gridAreas = <<>>
       => /\ TailwindGridItems = <<>>
          /\ generateTailwindCode = ExpectedTailwindParent \o "\n\n</div>"
          /\ CssRules = <<>>
          /\ CssHtmlItems = <<>>
          /\ generateCSSCode.css = ExpectedCssContainer
          /\ generateCSSCode.html = "<div class=\"grid-container\">\n\n</div>"

\* The reset has just been handled, in the middle of a gesture.
C8_Witness ==
  /\ lastEvent.name = "reset"
  /\ gridAreas = <<>>
  /\ isDragging

ExpectedChild(a) ==
  "  <div class=\"row-start-" \o ToString(a.rowStart)
    \o " row-span-" \o ToString(a.rowEnd - a.rowStart)
    \o " col-start-" \o ToString(a.colStart)
    \o " col-span-" \o ToString(a.colEnd - a.colStart)
    \o " " \o a.color \o " rounded-xl shadow-lg\"></div>"

RECURSIVE ExpectedChildrenFrom(_)
ExpectedChildrenFrom(i) ==
  IF i > Len(gridAreas) THEN ""
  ELSE "\n" \o ExpectedChild(gridAreas[i]) \o ExpectedChildrenFrom(i + 1)

\* C9: with columns and rows in 1..12 the primary generator emits the parent
\* with the classes grid, grid-cols-{columns}, grid-rows-{rows},
\* gap-{columnGap}, then one child per area in the order of the registry, the
\* i-th with the row start, row span, column start, column span and the color
\* of the i-th area; the text is determined by the configuration and the
\* registry alone.
C9_PrimarySyntax ==
  (gridConfig.columns \in 1..12 /\ gridConfig.rows \in 1..12)
    => /\ Len(TailwindGridItems) = Len(gridAreas)
       /\ \A i \in 1..Len(gridAreas) : TailwindGridItems[i] = ExpectedChild(gridAreas[i])
       /\ generateTailwindCode =
            ExpectedTailwindParent
              \o (IF gridAreas = <<>> THEN "\n" ELSE ExpectedChildrenFrom(1))
              \o "\n</div>"

\* Two areas of different extent are in the registry and the two gaps differ.
C9_Witness ==
  /\ Len(gridAreas) = 2
  /\ gridAreas[1].rowEnd - gridAreas[1].rowStart = 3
  /\ gridAreas[2].rowEnd - gridAreas[2].rowStart = 1
  /\ gridConfig.columnGap # gridConfig.rowGap
  /\ gridConfig.columns = 2

\* C10: in every step the registry stays as it is, or gains exactly one area
\* at its end (on a release or a leave that commits), or becomes empty (on a
\* reset); a field change, a pointer-down and a cell-enter leave it as it is.
C10_RegistryFrame ==
  [][/\ \/ gridAreas' = gridAreas
        \/ /\ AppendsOne(gridAreas, gridAreas')
           /\ isDragging
           /\ lastEvent'.name \in {"onMouseUp", "onMouseLeave"}
        \/ /\ gridAreas' = <<>>
           /\ lastEvent'.name = "reset"
     /\ lastEvent'.name \in FieldNames \cup {"onMouseDown", "onMouseEnter"}
          => gridAreas' = gridAreas]_vars

\* The rows field has just changed and the first of two areas reaches beyond
\* the last row line of the new grid.
C10_Witness ==
  /\ lastEvent.name = "rows"
  /\ Len(gridAreas) = 2
  /\ gridAreas[1].rowEnd > gridConfig.rows + 1

====
